---- MODULE Spec2Model ----
(***************************************************************************)
(* The two-level diff engine of zed_diff_extension (diff_core): line-level *)
(* LCS table with a wall-clock budget, backtracking, merging of adjacent   *)
(* changes, and the character-level diff of Modified ranges.               *)
(*                                                                         *)
(* A line is a sequence of characters; a character is a one-letter string. *)
(* One run of compute_diff is three steps, in the order of its body:       *)
(*   BuildTable (preprocess_lines, hash_lines, compute_lcs_matrix),        *)
(*   Backtrack  (backtrack_changes, which ends in merge_adjacent_changes), *)
(*   Finish     (compute_character_changes when requested, then return).   *)
(***************************************************************************)
EXTENDS Integers, Sequences, FiniteSets, TLC

VARIABLES original_lines, modified_lines, options, pc, rows_filled, lcs_matrix, changes

vars == <<original_lines, modified_lines, options, pc, rows_filled, lcs_matrix, changes>>

(***************************************************************************)
(* Bounds and input pools.                                                 *)
(***************************************************************************)
\* longest file, in lines, of the text-level specification Spec
MaxLines == 2
\* longest file, in lines, of the line-level specification SpecLong
MaxLongLines == 4

\* lines with case and whitespace variants of one another
TextLines == { <<"a">>, <<"A">>, <<" ", "a">>, <<"b">> }
\* lines that no normalization changes
PlainLines == { <<"a">>, <<"b">>, <<"c">> }

\* max_computation_time_ms of compare_two_files
DefaultTimeoutMs == 5000
Budgets == {0, DefaultTimeoutMs}
\* what start_time.elapsed() reads, in ms, on files this short: a budget of 0 can
\* be exceeded before any row, the default budget never is
Readings == {0, 1}

\* usize arithmetic wraps at this modulus when overflow checks are off.  TLC's
\* integers are 32-bit, so 2^30 stands for 2^32 (wasm32) or 2^64: every index
\* and length of the model is far below either.
UsizeModulus == 2^30

SeqsUpTo(S, n) == UNION { [1..k -> S] : k \in 0..n }

Reverse(s) == [k \in 1..Len(s) |-> s[Len(s) + 1 - k]]

Max(a, b) == IF a >= b THEN a ELSE b

(***************************************************************************)
(* Normalizer: preprocess_lines                                            *)
(***************************************************************************)
IsWhitespace(c) == c \in {" ", "\t"}

\* str::trim: leading and trailing whitespace removed, interior kept
RECURSIVE trim_start(_)
trim_start(line) ==
    IF line # <<>> /\ IsWhitespace(Head(line)) THEN trim_start(Tail(line)) ELSE line

RECURSIVE trim_end(_)
trim_end(line) ==
    IF line # <<>> /\ IsWhitespace(line[Len(line)])
    THEN trim_end(SubSeq(line, 1, Len(line) - 1))
    ELSE line

trim(line) == trim_end(trim_start(line))

lower_char(c) ==
    CASE c = "A" -> "a"
      [] c = "B" -> "b"
      [] c = "C" -> "c"
      [] OTHER -> c

to_lowercase(line) == [k \in 1..Len(line) |-> lower_char(line[k])]

preprocess_line_no_case_fold(line, opts) ==
    IF opts.ignore_whitespace THEN trim(line) ELSE line

preprocess_line(line, opts) ==
    LET trimmed == IF opts.ignore_whitespace THEN trim(line) ELSE line
    IN  IF opts.ignore_case THEN to_lowercase(trimmed) ELSE trimmed

preprocess_lines(lines, opts) == [k \in 1..Len(lines) |-> preprocess_line(lines[k], opts)]

(***************************************************************************)
(* Unit Hasher: hash_lines.  DefaultHasher (SipHash) is deterministic and  *)
(* is taken to be collision-free on the lines of the model: the surrogate  *)
(* of a line is its positional encoding over the character codes.          *)
(***************************************************************************)
char_code(c) ==
    CASE c = "a" -> 1
      [] c = "b" -> 2
      [] c = "c" -> 3
      [] c = "A" -> 4
      [] c = "B" -> 5
      [] c = "C" -> 6
      [] c = " " -> 7
      [] c = "\t" -> 8
      [] OTHER -> 9

RECURSIVE hash_line(_)
hash_line(line) ==
    IF line = <<>> THEN 1
    ELSE hash_line(SubSeq(line, 1, Len(line) - 1)) * 10 + char_code(line[Len(line)])

hash_lines(lines) == [k \in 1..Len(lines) |-> hash_line(lines[k])]

(***************************************************************************)
(* LCS Table Builder: compute_lcs_matrix.  clock[i] is what                *)
(* start_time.elapsed() reads at the check before row i.                   *)
(***************************************************************************)
\* the clock never runs backwards
Clocks(m) == { c \in [1..m -> Readings] : \A k \in 1..m : k > 1 => c[k - 1] <= c[k] }

\* rows the loop fills before `elapsed > timeout` breaks it
filled_rows(m, clock, timeout) ==
    LET fired == { k \in 1..m : clock[k] > timeout }
    IN  IF fired = {} THEN m ELSE (CHOOSE k \in fired : \A x \in fired : k <= x) - 1

lcs_row(prev, oh, modified_hashes) ==
    LET n == Len(modified_hashes)
        row[j \in 0..n] ==
            IF j = 0 THEN 0
            ELSE IF oh = modified_hashes[j] THEN prev[j - 1] + 1
            ELSE Max(prev[j], row[j - 1])
    IN  row

compute_lcs_matrix(original_hashes, modified_hashes, clock, timeout) ==
    LET m == Len(original_hashes)
        n == Len(modified_hashes)
        stop == filled_rows(m, clock, timeout)
        dp[i \in 0..m] ==
            IF i = 0 \/ i > stop THEN [j \in 0..n |-> 0]
            ELSE lcs_row(dp[i - 1], original_hashes[i], modified_hashes)
    IN  dp

(***************************************************************************)
(* Edit Script Recoverer: backtrack_changes                                *)
(***************************************************************************)
LineChange(os, oe, ms, me, ty) ==
    [original_start |-> os, original_end |-> oe,
     modified_start |-> ms, modified_end |-> me,
     change_type |-> ty, char_changes |-> <<>>]

\* the while loop of backtrack_changes from (i, j): the changes in push order
RECURSIVE backtrack_loop(_, _, _, _, _, _)
backtrack_loop(table, oh, mh, i, j, pushed) ==
    IF ~(i > 0 \/ j > 0) THEN pushed
    ELSE IF i > 0 /\ j > 0 /\ oh[i] = mh[j]
         THEN backtrack_loop(table, oh, mh, i - 1, j - 1, pushed)
    ELSE IF i > 0 /\ (j = 0 \/ table[i][j] = table[i - 1][j])
         THEN backtrack_loop(table, oh, mh, i - 1, j,
                             Append(pushed, LineChange(i - 1, i, j, j, "Deleted")))
    ELSE backtrack_loop(table, oh, mh, i, j - 1,
                        Append(pushed, LineChange(i, i, j - 1, j, "Added")))

\* the push order kept: changes.reverse() forgotten
atomic_changes_not_reversed(table, oh, mh) ==
    backtrack_loop(table, oh, mh, Len(oh), Len(mh), <<>>)

\* the atomic operations after changes.reverse()
atomic_changes(table, oh, mh) ==
    Reverse(backtrack_loop(table, oh, mh, Len(oh), Len(mh), <<>>))

(***************************************************************************)
(* Change Merger: merge_adjacent_changes, should_merge                     *)
(***************************************************************************)
should_merge_pairs_only(a, b) ==
    a.change_type = "Deleted" /\ b.change_type = "Added"

should_merge(a, b) ==
    \/ (a.change_type = "Deleted" /\ b.change_type = "Added")
    \/ (/\ a.change_type = b.change_type
        /\ a.original_end = b.original_start
        /\ a.modified_end = b.modified_start)

absorb_keeps_end(current, change) ==
    [current EXCEPT !.change_type =
                        IF current.change_type = "Deleted" /\ change.change_type = "Added"
                        THEN "Modified" ELSE current.change_type]

absorb_no_promotion(current, change) ==
    [current EXCEPT !.original_end = change.original_end,
                    !.modified_end = change.modified_end]

\* the body of the `if should_merge` branch
absorb(current, change) ==
    [current EXCEPT !.original_end = change.original_end,
                    !.modified_end = change.modified_end,
                    !.change_type =
                        IF current.change_type = "Deleted" /\ change.change_type = "Added"
                        THEN "Modified" ELSE current.change_type]

RECURSIVE merge_loop(_, _, _, _)
merge_loop(list, k, current, merged) ==
    IF k > Len(list) THEN Append(merged, current)
    ELSE IF should_merge(current, list[k])
         THEN merge_loop(list, k + 1, absorb(current, list[k]), merged)
    ELSE merge_loop(list, k + 1, list[k], Append(merged, current))

merge_adjacent_changes(list) ==
    IF list = <<>> THEN list ELSE merge_loop(list, 2, list[1], <<>>)

backtrack_changes(table, oh, mh) == merge_adjacent_changes(atomic_changes(table, oh, mh))

(***************************************************************************)
(* Character Diff Engine: compute_character_changes, compute_char_diff     *)
(***************************************************************************)
RECURSIVE join(_, _)
join(lines, sep) ==
    IF lines = <<>> THEN <<>>
    ELSE IF Len(lines) = 1 THEN lines[1]
    ELSE lines[1] \o <<sep>> \o join(Tail(lines), sep)

\* lines[start..end].join("\n"), with 0-based half-open indices
get_line_range(lines, start, end) == join(SubSeq(lines, start + 1, end), "\n")

\* a - b on usize: the mathematical difference, or wrapped when it is negative
usize_sub(a, b) == IF a >= b THEN a - b ELSE a - b + UsizeModulus

CharChange(ds, i, is, j) ==
    [original_start |-> ds, original_length |-> usize_sub(i, ds),
     modified_start |-> is, modified_length |-> usize_sub(j, is)]

\* the backtracking loop of compute_char_diff and the flush after it.  Options
\* are sequences: <<>> is None and <<x>> is Some(x).  `underflow` records that
\* one of the subtractions of a flush had a negative result.
RECURSIVE char_loop(_, _, _, _, _, _, _, _, _)
char_loop(dp, oc, mc, i, j, del_start, ins_start, pushed, underflow) ==
    IF ~(i > 0 \/ j > 0)
    THEN IF del_start # <<>> /\ ins_start # <<>>
         THEN [char_changes |-> Append(pushed, CharChange(del_start[1], i, ins_start[1], j)),
               underflow |-> underflow \/ i < del_start[1] \/ j < ins_start[1]]
         ELSE [char_changes |-> pushed, underflow |-> underflow]
    ELSE IF i > 0 /\ j > 0 /\ oc[i] = mc[j]
         THEN IF del_start # <<>> /\ ins_start # <<>>
              THEN char_loop(dp, oc, mc, i - 1, j - 1, <<>>, <<>>,
                             Append(pushed, CharChange(del_start[1], i, ins_start[1], j)),
                             underflow \/ i < del_start[1] \/ j < ins_start[1])
              ELSE char_loop(dp, oc, mc, i - 1, j - 1, del_start, ins_start, pushed, underflow)
    ELSE IF i > 0 /\ (j = 0 \/ dp[i][j] = dp[i - 1][j])
         THEN char_loop(dp, oc, mc, i - 1, j,
                        IF del_start = <<>> THEN <<i - 1>> ELSE del_start,
                        ins_start, pushed, underflow)
    ELSE char_loop(dp, oc, mc, i, j - 1, del_start,
                   IF ins_start = <<>> THEN <<j - 1>> ELSE ins_start,
                   pushed, underflow)

\* the character table has no timeout: every row is filled
char_table(oc, mc) ==
    LET dp[i \in 0..Len(oc)] ==
            IF i = 0 THEN [j \in 0..Len(mc) |-> 0]
            ELSE lcs_row(dp[i - 1], oc[i], mc)
    IN  dp

compute_char_diff(original, modified) ==
    IF Len(original) = 0 /\ Len(modified) = 0
    THEN [char_changes |-> <<>>, underflow |-> FALSE]
    ELSE LET walked == char_loop(char_table(original, modified), original, modified,
                                 Len(original), Len(modified), <<>>, <<>>, <<>>, FALSE)
         IN  [char_changes |-> Reverse(walked.char_changes), underflow |-> walked.underflow]

char_diff_of(change, olines, mlines) ==
    compute_char_diff(
        get_line_range(olines, change.original_start, change.original_end),
        get_line_range(mlines, change.modified_start, change.modified_end))

\* the changes with char_changes = Some(..) on every Modified one
compute_character_changes(list, olines, mlines) ==
    [k \in 1..Len(list) |->
        IF list[k].change_type = "Modified"
        THEN [list[k] EXCEPT !.char_changes = <<char_diff_of(list[k], olines, mlines).char_changes>>]
        ELSE list[k]]

\* some subtraction of the character stage underflows
character_stage_underflows(list, olines, mlines) ==
    \E k \in 1..Len(list) :
        /\ list[k].change_type = "Modified"
        /\ char_diff_of(list[k], olines, mlines).underflow

(***************************************************************************)
(* State machine                                                           *)
(***************************************************************************)
NoTable == [i \in 0..0 |-> [j \in 0..0 |-> 0]]

OptionSets ==
    [ignore_whitespace : BOOLEAN, ignore_case : BOOLEAN,
     max_computation_time_ms : Budgets, compute_char_changes : BOOLEAN]

InitRest ==
    /\ pc = "start"
    /\ rows_filled = 0
    /\ lcs_matrix = NoTable
    /\ changes = <<>>

Init ==
    /\ original_lines \in SeqsUpTo(TextLines, MaxLines)
    /\ modified_lines \in SeqsUpTo(TextLines, MaxLines)
    /\ options \in OptionSets
    /\ InitRest

original_hashes == hash_lines(preprocess_lines(original_lines, options))
modified_hashes == hash_lines(preprocess_lines(modified_lines, options))

BuildTable ==
    /\ pc = "start"
    /\ \E clock \in Clocks(Len(original_lines)) :
        /\ rows_filled' = filled_rows(Len(original_lines), clock, options.max_computation_time_ms)
        /\ lcs_matrix' = compute_lcs_matrix(original_hashes, modified_hashes, clock,
                                            options.max_computation_time_ms)
    /\ pc' = "table"
    /\ UNCHANGED <<original_lines, modified_lines, options, changes>>

Backtrack ==
    /\ pc = "table"
    /\ changes' = backtrack_changes(lcs_matrix, original_hashes, modified_hashes)
    /\ pc' = "lines"
    /\ UNCHANGED <<original_lines, modified_lines, options, rows_filled, lcs_matrix>>

\* The tail of compute_diff.  An underflowing usize subtraction panics when the
\* build has overflow checks (debug) and wraps when it has none (release).
Finish ==
    /\ pc = "lines"
    /\ IF ~options.compute_char_changes
       THEN pc' = "done" /\ UNCHANGED changes
       ELSE \E overflow_checks \in BOOLEAN :
              IF overflow_checks /\ character_stage_underflows(changes, original_lines, modified_lines)
              THEN pc' = "panicked" /\ UNCHANGED changes
              ELSE /\ pc' = "done"
                   /\ changes' = compute_character_changes(changes, original_lines, modified_lines)
    /\ UNCHANGED <<original_lines, modified_lines, options, rows_filled, lcs_matrix>>

Next == BuildTable \/ Backtrack \/ Finish

\* Lines are only ever compared for equality, so the longer files are taken up
\* to renaming of their lines: reading the original file and then the modified
\* one, the first new line is "a", the next new one "b", then "c".
plain_rank(line) ==
    CASE line = <<"a">> -> 1
      [] line = <<"b">> -> 2
      [] OTHER -> 3

FirstUseOrder(s) ==
    \A k \in 1..Len(s) :
        \/ plain_rank(s[k]) = 1
        \/ \E x \in 1..(k - 1) : plain_rank(s[x]) = plain_rank(s[k]) - 1

\* line-level runs: longer files of plain lines, the options of compare_two_files
\* with either budget
InitLong ==
    /\ original_lines \in SeqsUpTo(PlainLines, MaxLongLines)
    /\ modified_lines \in SeqsUpTo(PlainLines, MaxLongLines)
    /\ FirstUseOrder(original_lines \o modified_lines)
    /\ options \in [ignore_whitespace : {FALSE}, ignore_case : {FALSE},
                    max_computation_time_ms : Budgets, compute_char_changes : {TRUE}]
    /\ InitRest

SpecLong == InitLong /\ [][Next]_vars

Spec == Init /\ [][Next]_vars

(***************************************************************************)
(* Vocabulary of the properties                                            *)
(***************************************************************************)
M == Len(original_lines)
N == Len(modified_lines)

Returned == pc = "done"
Ended == pc \in {"done", "panicked"}
FullTable == rows_filled = M

\* the normalization the options ask for: trim, then case fold
Normalized(line) ==
    LET t == IF options.ignore_whitespace THEN trim(line) ELSE line
    IN  IF options.ignore_case THEN to_lowercase(t) ELSE t

NormalizedOriginal == [k \in 1..M |-> Normalized(original_lines[k])]
NormalizedModified == [k \in 1..N |-> Normalized(modified_lines[k])]

Range(s) == { s[k] : k \in 1..Len(s) }

SameRanges(c, os, oe, ms, me) ==
    /\ c.original_start = os /\ c.original_end = oe
    /\ c.modified_start = ms /\ c.modified_end = me

\* 0-based line index i lies in the original / modified range of a change
InOriginal(c, i) == c.original_start <= i /\ i < c.original_end
InModified(c, j) == c.modified_start <= j /\ j < c.modified_end

ReportedDeleted(i) ==
    \E k \in 1..Len(changes) :
        changes[k].change_type \in {"Deleted", "Modified"} /\ InOriginal(changes[k], i)
ReportedAdded(j) ==
    \E k \in 1..Len(changes) :
        changes[k].change_type \in {"Added", "Modified"} /\ InModified(changes[k], j)

\* the lines outside every change, in order
UntouchedOriginal ==
    LET Keep(k) == \A c \in 1..Len(changes) : ~InOriginal(changes[c], k - 1)
    IN  SelectSeq([k \in 1..M |-> k], Keep)
UntouchedModified ==
    LET Keep(k) == \A c \in 1..Len(changes) : ~InModified(changes[c], k - 1)
    IN  SelectSeq([k \in 1..N |-> k], Keep)

UntouchedLinesAgree ==
    /\ Len(UntouchedOriginal) = Len(UntouchedModified)
    /\ \A k \in 1..Len(UntouchedOriginal) :
          NormalizedOriginal[UntouchedOriginal[k]] = NormalizedModified[UntouchedModified[k]]

\* length of the longest common subsequence of the normalized lines
LcsLength ==
    LET L[i \in 0..M, j \in 0..N] ==
            IF i = 0 \/ j = 0 THEN 0
            ELSE IF NormalizedOriginal[i] = NormalizedModified[j] THEN L[i - 1, j - 1] + 1
            ELSE Max(L[i - 1, j], L[i, j - 1])
    IN  L[M, N]

SumOver(s, F(_)) ==
    LET S[k \in 0..Len(s)] == IF k = 0 THEN 0 ELSE S[k - 1] + F(s[k])
    IN  S[Len(s)]

OriginalLinesReported ==
    LET F(c) == IF c.change_type \in {"Deleted", "Modified"}
                THEN c.original_end - c.original_start ELSE 0
    IN  SumOver(changes, F)
ModifiedLinesReported ==
    LET F(c) == IF c.change_type \in {"Added", "Modified"}
                THEN c.modified_end - c.modified_start ELSE 0
    IN  SumOver(changes, F)

(***************************************************************************)
(* C1  Identity under normalization                                        *)
(***************************************************************************)
EqualAfterNormalization == NormalizedOriginal = NormalizedModified

\* C1: when the two files are equal line by line after the configured
\* normalization, compute_diff returns the empty change list, whatever the
\* budget, the clock and compute_char_changes are.
C1_IdentityIsEmpty ==
    (Ended /\ EqualAfterNormalization) => (Returned /\ changes = <<>>)

C1_Witness ==
    /\ Returned /\ EqualAfterNormalization
    /\ original_lines # modified_lines
    /\ M >= 2 /\ rows_filled < M
    /\ options.compute_char_changes
    /\ changes = <<>>

(***************************************************************************)
(* C2  Modification promotion                                              *)
(***************************************************************************)
\* equal length, one differing position k (1-based) whose lines occur nowhere else
SingleDifferenceAt(k) ==
    /\ M = N /\ k \in 1..M
    /\ NormalizedOriginal[k] # NormalizedModified[k]
    /\ \A x \in 1..M : x # k => NormalizedOriginal[x] = NormalizedModified[x]
    /\ \A x \in 1..M : x # k =>
          /\ NormalizedOriginal[x] \notin {NormalizedOriginal[k], NormalizedModified[k]}

\* C2: two files of equal length that differ in exactly one position k, whose
\* two lines occur nowhere else, give exactly one change, Modified, with
\* original range [k, k+1) and modified range [k, k+1).
C2_ModificationPromotion ==
    \A k \in 1..M :
        (Returned /\ SingleDifferenceAt(k)) =>
            /\ Len(changes) = 1
            /\ changes[1].change_type = "Modified"
            /\ SameRanges(changes[1], k - 1, k, k - 1, k)

(***************************************************************************)
(* C3  Pure suffix edit                                                    *)
(***************************************************************************)
\* longer = shorter followed by a non-empty block of lines not in shorter
IsSuffixEdit(shorter, longer) ==
    /\ Len(shorter) < Len(longer)
    /\ SubSeq(longer, 1, Len(shorter)) = shorter
    /\ \A k \in (Len(shorter) + 1)..Len(longer) : longer[k] \notin Range(shorter)

\* C3: with the table fully computed, modified = L ++ S gives the single
\* change Added [|L|, |L|) / [|L|, |L|+|S|), and original = L ++ S gives the
\* single change Deleted [|L|, |L|+|S|) / [|L|, |L|).
C3_PureSuffixEdit ==
    (Returned /\ FullTable) =>
        /\ IsSuffixEdit(NormalizedOriginal, NormalizedModified) =>
              /\ Len(changes) = 1
              /\ changes[1].change_type = "Added"
              /\ SameRanges(changes[1], M, M, M, N)
        /\ IsSuffixEdit(NormalizedModified, NormalizedOriginal) =>
              /\ Len(changes) = 1
              /\ changes[1].change_type = "Deleted"
              /\ SameRanges(changes[1], N, M, N, N)

C3_Witness ==
    /\ Returned /\ FullTable
    /\ IsSuffixEdit(NormalizedOriginal, NormalizedModified)
    /\ M >= 1 /\ N >= M + 2
    /\ Len(changes) = 1 /\ changes[1].change_type = "Added"

(***************************************************************************)
(* C4  Timeout degradation                                                 *)
(***************************************************************************)
\* budget 0 and the timeout fired at the first check: no row was filled
TimedOutAtOnce == options.max_computation_time_ms = 0 /\ M >= 1 /\ rows_filled = 0

EveryLineReported ==
    /\ \A i \in 0..(M - 1) : ReportedDeleted(i)
    /\ \A j \in 0..(N - 1) : ReportedAdded(j)

\* C4 as stated: after an immediate timeout compute_diff returns, and every
\* original line is reported deleted and every modified line reported added.
C4_EveryLineReported ==
    (Ended /\ TimedOutAtOnce) => (Returned /\ EveryLineReported)

NoCommonLine == Range(NormalizedOriginal) \cap Range(NormalizedModified) = {}

\* C4 amended: after an immediate timeout compute_diff returns; every original
\* line is reported deleted, and every modified line reported added, except
\* the lines left unchanged, which pair up, in order, as equal lines; when
\* the files have no line in common, every line is reported.
C4_TimeoutDegradation ==
    (Ended /\ TimedOutAtOnce) =>
        /\ Returned
        /\ \A i \in 0..(M - 1) : ReportedDeleted(i) \/ \E k \in 1..Len(UntouchedOriginal) : UntouchedOriginal[k] = i + 1
        /\ \A j \in 0..(N - 1) : ReportedAdded(j) \/ \E k \in 1..Len(UntouchedModified) : UntouchedModified[k] = j + 1
        /\ UntouchedLinesAgree
        /\ NoCommonLine => EveryLineReported

C4_Witness ==
    /\ Returned /\ TimedOutAtOnce
    /\ M >= 2 /\ N >= 2
    /\ ~EveryLineReported
    /\ Len(changes) >= 2

(***************************************************************************)
(* C5  Merge idempotence                                                   *)
(***************************************************************************)
\* C5: merging the merged list of the backtracker again changes nothing.
C5_MergeIdempotent ==
    (pc = "lines") => merge_adjacent_changes(changes) = changes

(***************************************************************************)
(* C6, C7  Character changes                                               *)
(***************************************************************************)
CharChangesOf(c) == IF c.char_changes = <<>> THEN <<>> ELSE c.char_changes[1]

\* C6: no CharChange of a returned Modified change has both lengths zero.
C6_NoEmptyCharChange ==
    (Returned /\ options.compute_char_changes) =>
        \A k \in 1..Len(changes) :
            \A x \in 1..Len(CharChangesOf(changes[k])) :
                LET cc == CharChangesOf(changes[k])[x]
                IN  ~(cc.original_length = 0 /\ cc.modified_length = 0)

OriginalSpan(c) == get_line_range(original_lines, c.original_start, c.original_end)
ModifiedSpan(c) == get_line_range(modified_lines, c.modified_start, c.modified_end)

\* C7: with compute_char_changes, compute_diff returns normally, and every
\* CharChange lies inside the text spans of its Modified change.
C7_CharChangeContained ==
    (Ended /\ options.compute_char_changes) =>
        /\ Returned
        /\ \A k \in 1..Len(changes) :
              \A x \in 1..Len(CharChangesOf(changes[k])) :
                  LET cc == CharChangesOf(changes[k])[x]
                  IN  /\ cc.original_start + cc.original_length <= Len(OriginalSpan(changes[k]))
                      /\ cc.modified_start + cc.modified_length <= Len(ModifiedSpan(changes[k]))

(***************************************************************************)
(* C8  Type invariant of LineChange                                        *)
(***************************************************************************)
WellTyped(c) ==
    CASE c.change_type = "Added" ->
            c.original_start = c.original_end /\ c.modified_start < c.modified_end
      [] c.change_type = "Deleted" ->
            c.modified_start = c.modified_end /\ c.original_start < c.original_end
      [] c.change_type = "Modified" ->
            c.original_start < c.original_end /\ c.modified_start < c.modified_end
      [] OTHER -> FALSE

\* C8: every returned LineChange is well typed: Added has an empty original
\* and a non-empty modified range, Deleted the reverse, Modified both non-empty.
C8_TypeInvariant ==
    Returned => \A k \in 1..Len(changes) : WellTyped(changes[k])

C8_Witness ==
    /\ Returned
    /\ rows_filled > 0 /\ rows_filled < M
    /\ \E k \in 1..Len(changes) : changes[k].change_type = "Modified"
    /\ \E k \in 1..Len(changes) : changes[k].change_type = "Added"
    /\ \E k \in 1..Len(changes) : changes[k].change_type = "Deleted"

(***************************************************************************)
(* C9  Minimality                                                          *)
(***************************************************************************)
\* C9: with the table fully computed, the Deleted and Modified changes cover
\* M - LCS original lines and the Added and Modified ones N - LCS modified lines.
C9_Minimality ==
    (Returned /\ FullTable) =>
        /\ OriginalLinesReported = M - LcsLength
        /\ ModifiedLinesReported = N - LcsLength

(***************************************************************************)
(* C10  Validity of the edit script under any truncation                   *)
(***************************************************************************)
InOrder ==
    /\ \A k \in 1..Len(changes) :
          /\ 0 <= changes[k].original_start /\ changes[k].original_start <= changes[k].original_end
          /\ changes[k].original_end <= M
          /\ 0 <= changes[k].modified_start /\ changes[k].modified_start <= changes[k].modified_end
          /\ changes[k].modified_end <= N
    /\ \A k \in 1..(Len(changes) - 1) :
          /\ changes[k].original_end <= changes[k + 1].original_start
          /\ changes[k].modified_end <= changes[k + 1].modified_start

\* C10: wherever the fill stopped, the returned changes are in order with
\* disjoint original ranges and disjoint modified ranges, and the lines
\* outside every change are as many on both sides and pairwise equal.
C10_ValidEditScript ==
    Returned => (InOrder /\ UntouchedLinesAgree)

C10_Witness ==
    /\ Returned
    /\ rows_filled > 0 /\ rows_filled < M
    /\ Len(changes) >= 2
    /\ Len(UntouchedOriginal) >= 1
    /\ Len(UntouchedOriginal) < M
====
